---- MODULE Spec2Model ----
(***************************************************************************)
(* A model of numcodecs.categorize.Categorize: a codec that maps an array  *)
(* of categorical values to an array of integer codes and back.            *)
(*                                                                         *)
(* Values.  A byte string is [k |-> "b", s |-> <<chars>>], a text string   *)
(* is [k |-> "t", s |-> <<chars>>]; the two are different values, as in    *)
(* Python 3.  A value of an integer decoded type is a natural number.      *)
(* Arrays are sequences.  A dtype is [kind, size]: kind "S" (byte string   *)
(* of `size` characters), "U" (text string of `size` characters) or "u"    *)
(* (unsigned integer of `size` bytes).                                     *)
(*                                                                         *)
(* numpy's element assignment is modelled by Store: a string is cut to the *)
(* width of the array's dtype, an integer is reduced modulo 2^bits (the    *)
(* silent cast of the numpy releases this code was written for).  A        *)
(* comparison `arr == l` compares the whole label.  Strings hold no NUL    *)
(* characters and numbers are no NaN.                                      *)
(***************************************************************************)
EXTENDS Integers, Sequences, FiniteSets, TLC

VARIABLES
    labels,     \* self.labels
    dtype,      \* self.dtype
    astype,     \* self.astype
    labels0,    \* history: self.labels as construction left it
    dtype0,     \* history: self.dtype as construction left it
    astype0,    \* history: self.astype as construction left it
    op,         \* the last call: "encode", "decode", "get_config"; "idle" after
                \* construction and once the caller has dropped that call's arrays
    given,      \* the argument of the last call, as the caller passed it
    arg,        \* the caller's argument buffer after the last call
    outKind,    \* the out argument of the last decode: "none", "ndarray", "buffer"
    outBefore,  \* the caller's out buffer before the last decode
    out,        \* the caller's out buffer after the last decode
    res,        \* the array the last encode or decode returned
    chained,    \* TRUE when the last call's argument was the previous call's result
    orig,       \* the argument of that previous call, when chained
    config      \* the record the last get_config returned

vars == <<labels, dtype, astype, labels0, dtype0, astype0, op, given, arg,
          outKind, outBefore, out, res, chained, orig, config>>

(***************************************************************************)
(* Bounds of the model.                                                    *)
(***************************************************************************)
\* longest label list of the exhaustively enumerated codecs
MaxLabels == 2
\* longest array passed to encode or decode
MaxLen == 2

(***************************************************************************)
(* Value universes.                                                        *)
(***************************************************************************)
Strs == { <<>>, <<"a">>, <<"b">>, <<"a", "b">> }

Bytes(s) == [k |-> "b", s |-> s]

Text(s) == [k |-> "t", s |-> s]

\* the labels a caller may pass for a string decoded type: bytes or text
StrLabels == { Bytes(s) : s \in Strs } \cup { Text(s) : s \in Strs }

IntLabels == 0..2

Pow2(n) == 2 ^ n

Bits(at) == 8 * at.size

SeqsUpTo(S, n) == UNION { [1..m -> S] : m \in 0..n }

Iota(n) == [i \in 1..n |-> i]

\* TRUE for every array; evaluating it makes TLC compute the array's elements
\* before the later passes of a loop
Computed(a) == a = a

Min(a, b) == IF a < b THEN a ELSE b

(***************************************************************************)
(* numcodecs.compat and numpy helpers.                                     *)
(***************************************************************************)
ensure_bytes(l) == IF l.k = "b" THEN l ELSE Bytes(l.s)

ensure_text(l) == IF l.k = "t" THEN l ELSE Text(l.s)

\* dtype.str: byte order, kind, size
DtypeStr(d) ==
    << (IF d.kind = "S" \/ (d.kind = "u" /\ d.size = 1) THEN "|" ELSE "<"),
       d.kind, d.size >>

\* np.dtype(spec)
NpDtype(spec) == [kind |-> spec[2], size |-> spec[3]]

\* the value np.zeros_like(..., dtype=d) fills an array with
ZeroOf(d) ==
    IF d.kind = "S" THEN Bytes(<<>>)
    ELSE IF d.kind = "U" THEN Text(<<>>)
    ELSE 0

\* the value an element of an array of dtype d holds after `a[...] = v`:
\* a string is cut to the dtype's width, an integer to the dtype's bits
Store(d, v) ==
    IF d.kind = "S" THEN Bytes(SubSeq(v.s, 1, Min(Len(v.s), d.size)))
    ELSE IF d.kind = "U" THEN Text(SubSeq(v.s, 1, Min(Len(v.s), d.size)))
    ELSE v % Pow2(Bits(d))

zeros_like(a, d) == [k \in 1..Len(a) |-> ZeroOf(d)]

\* buffer_copy(buf, out): without out, buf is returned; otherwise buf is
\* copied into out and out is returned
buffer_copy(buf, o, kind) ==
    IF kind = "none" THEN [ret |-> buf, out |-> o] ELSE [ret |-> buf, out |-> buf]

(***************************************************************************)
(* Categorize.__init__                                                     *)
(***************************************************************************)
CategorizeInit(labels_, dtype_, astype_) ==
    LET d == NpDtype(dtype_) IN
    [ dtype  |-> d,
      labels |-> IF d.kind = "S"
                 THEN [i \in 1..Len(labels_) |-> ensure_bytes(labels_[i])]
                 ELSE IF d.kind = "U"
                 THEN [i \in 1..Len(labels_) |-> ensure_text(labels_[i])]
                 ELSE labels_,
      astype |-> NpDtype(astype_) ]

(***************************************************************************)
(* Categorize.encode                                                       *)
(***************************************************************************)
\* mutant: the code of a label is its 0-based index, `enc[arr == l] = i`
EncodeStepOffByOne(labs, at, arr, enc, n) ==
    [k \in 1..Len(arr) |-> IF arr[k] = labs[n] THEN Store(at, n - 1) ELSE enc[k]]

\* mutant: a position that already holds a code keeps it (the first match wins)
EncodeStepFirstWins(labs, at, arr, enc, n) ==
    [k \in 1..Len(arr) |->
        IF arr[k] = labs[n] /\ enc[k] = 0 THEN Store(at, n) ELSE enc[k]]

\* mutant: the code is stored unreduced, as in an array wide enough for it
EncodeStepNoWrap(labs, at, arr, enc, n) ==
    [k \in 1..Len(arr) |-> IF arr[k] = labs[n] THEN n ELSE enc[k]]

\* one pass of `for i, l in enumerate(self.labels): enc[arr == l] = i + 1`
\* (n is i + 1)
EncodeStep(labs, at, arr, enc, n) ==
    [k \in 1..Len(arr) |-> IF arr[k] = labs[n] THEN Store(at, n) ELSE enc[k]]

\* the passes lo..hi of the loop, in the order of the label list (the range is
\* halved so that a long label list does not nest the evaluation deeply)
RECURSIVE EncodeLoop(_, _, _, _, _, _)
RECURSIVE EncodeRest(_, _, _, _, _, _)
EncodeLoop(labs, at, arr, enc, lo, hi) ==
    IF lo > hi THEN enc
    ELSE IF lo = hi THEN EncodeStep(labs, at, arr, enc, lo)
    ELSE EncodeRest(labs, at, arr,
                    EncodeLoop(labs, at, arr, enc, lo, (lo + hi) \div 2),
                    (lo + hi) \div 2 + 1, hi)

EncodeRest(labs, at, arr, first, lo, hi) ==
    IF Computed(first) THEN EncodeLoop(labs, at, arr, first, lo, hi) ELSE first

\* mutant: the output array starts as ones, `np.ones_like`
encodeOnes(labs, dt, at, buf) ==
    [ arr |-> buf,
      enc |-> EncodeLoop(labs, at, buf, [k \in 1..Len(buf) |-> 1], 1, Len(labs)) ]

\* mutant: the loop leaves out the last label
encodeSkipLast(labs, dt, at, buf) ==
    [ arr |-> buf,
      enc |-> EncodeLoop(labs, at, buf, zeros_like(buf, at), 1, Len(labs) - 1) ]

\* mutant: the caller's input array is cleared once it has been encoded
encodeInPlace(labs, dt, at, buf) ==
    [ arr |-> zeros_like(buf, dt),
      enc |-> EncodeLoop(labs, at, buf, zeros_like(buf, at), 1, Len(labs)) ]

\* the input array after the call, and the returned array
encode(labs, dt, at, buf) ==
    [ arr |-> buf,
      enc |-> EncodeLoop(labs, at, buf, zeros_like(buf, at), 1, Len(labs)) ]

(***************************************************************************)
(* Categorize.decode                                                       *)
(***************************************************************************)
\* mutant: label i is written where the code is i, `dec[enc == i] = l`
DecodeStepOffByOne(labs, dt, enc, dec, n) ==
    [k \in 1..Len(enc) |-> IF enc[k] = n - 1 THEN Store(dt, labs[n]) ELSE dec[k]]

\* mutant: label i is written where the code is at least i + 1
DecodeStepAtLeast(labs, dt, enc, dec, n) ==
    [k \in 1..Len(enc) |-> IF enc[k] >= n THEN Store(dt, labs[n]) ELSE dec[k]]

\* one pass of `for i, l in enumerate(self.labels): dec[enc == (i + 1)] = l`
DecodeStep(labs, dt, enc, dec, n) ==
    [k \in 1..Len(enc) |-> IF enc[k] = n THEN Store(dt, labs[n]) ELSE dec[k]]

RECURSIVE DecodeLoop(_, _, _, _, _, _)
RECURSIVE DecodeRest(_, _, _, _, _, _)
DecodeLoop(labs, dt, enc, dec, lo, hi) ==
    IF lo > hi THEN dec
    ELSE IF lo = hi THEN DecodeStep(labs, dt, enc, dec, lo)
    ELSE DecodeRest(labs, dt, enc,
                    DecodeLoop(labs, dt, enc, dec, lo, (lo + hi) \div 2),
                    (lo + hi) \div 2 + 1, hi)

DecodeRest(labs, dt, enc, first, lo, hi) ==
    IF Computed(first) THEN DecodeLoop(labs, dt, enc, first, lo, hi) ELSE first

\* the working array decode starts from
DecodeSetup(dt, enc, o, kind) ==
    IF kind = "ndarray" THEN o ELSE zeros_like(enc, dt)

\* the returned array, and the caller's out buffer after the call
decode(labs, dt, at, buf, o, kind) ==
    LET dec == DecodeLoop(labs, dt, buf, DecodeSetup(dt, buf, o, kind), 1, Len(labs)) IN
    IF kind = "ndarray"
    THEN [dec |-> dec, out |-> dec]
    ELSE [dec |-> buffer_copy(dec, o, kind).ret,
          out |-> buffer_copy(dec, o, kind).out]

(***************************************************************************)
(* Categorize.get_config                                                   *)
(***************************************************************************)
codec_id == "categorize"

\* mutant: the encoded type is reported as the decoded type's string
get_configAstypeOfDtype(labs, dt, at) ==
    [ id     |-> codec_id,
      labels |-> IF dt.kind = "S"
                 THEN [i \in 1..Len(labs) |-> ensure_text(labs[i])]
                 ELSE labs,
      dtype  |-> DtypeStr(dt),
      astype |-> DtypeStr(dt) ]

get_config(labs, dt, at) ==
    [ id     |-> codec_id,
      labels |-> IF dt.kind = "S"
                 THEN [i \in 1..Len(labs) |-> ensure_text(labs[i])]
                 ELSE labs,
      dtype  |-> DtypeStr(dt),
      astype |-> DtypeStr(at) ]

NoConfig == [id |-> "", labels |-> <<>>, dtype |-> <<>>, astype |-> <<>>]

(***************************************************************************)
(* The codecs and the arguments the model draws.                           *)
(***************************************************************************)
StrDtypes == { <<"|", "S", 1>>, <<"|", "S", 2>>, <<"<", "U", 1>>, <<"<", "U", 2>> }

\* an integer decoded type: '<u2'
IntDtype == <<"<", "u", 2>>

\* `astype='u1'`
DefaultAstype == <<"|", "u", 1>>

Astypes == { DefaultAstype, <<"<", "u", 2>> }

\* label counts around the number of codes the default encoded type holds:
\* the longest list it holds a code for, and the shortest with a label whose
\* code is past a multiple of that number
WideCounts == { Pow2(Bits(NpDtype(DefaultAstype))) + d : d \in {-1, 1} }

\* a list of that many labels whose last label repeats its first
WideDup(n) == [i \in 1..n |-> IF i = n THEN 1 ELSE i]

WideLists ==
    { Iota(n) : n \in WideCounts }
      \cup { WideDup(Pow2(Bits(NpDtype(DefaultAstype))) + 1) }

\* the values an input array of the decoded type may hold
Values(labs, dt) ==
    IF dt.kind = "S" THEN { Bytes(s) : s \in { t \in Strs : Len(t) <= dt.size } }
    ELSE IF dt.kind = "U" THEN { Text(s) : s \in { t \in Strs : Len(t) <= dt.size } }
    ELSE { v \in 0..(Len(labs) + 3) :
             v <= 2 \/ (v >= Len(labs) - 1 /\ v <= Len(labs) + 1) }

\* the values a caller's out buffer may be filled with before a decode
Fills(labs, dt) ==
    { v \in Values(labs, dt) : dt.kind \in {"S", "U"} \/ v <= 1 }

\* the codes an array of the encoded type may hold
Codes(labs, at) ==
    { c \in 0..Min(Len(labs) + 3, Pow2(Bits(at)) - 1) :
        c <= 2 \/ (c >= Len(labs) - 1 /\ c <= Len(labs) + 1) }

\* the constructor arguments <<labels, dtype, astype>> the model draws for the
\* string types: every short list of byte and text labels
StrCodecArgs ==
    { <<ls, dt, DefaultAstype>> : ls \in SeqsUpTo(StrLabels, MaxLabels), dt \in StrDtypes }

\* and for the integer type: every short list of integer labels with either
\* encoded type, the long lists with the default encoded type and the longest
\* with the wider one too
IntCodecArgs ==
    { <<ls, IntDtype, at>> : ls \in SeqsUpTo(IntLabels, MaxLabels), at \in Astypes }
      \cup { <<ls, IntDtype, DefaultAstype>> : ls \in WideLists }
      \cup { <<Iota(Pow2(Bits(NpDtype(DefaultAstype))) + 1), IntDtype, at>> : at \in Astypes }

\* the codec Categorize(labels, dtype, astype) constructs
Constructed(a) ==
    LET c == CategorizeInit(a[1], a[2], a[3]) IN
    /\ labels = c.labels /\ dtype = c.dtype /\ astype = c.astype
    /\ labels0 = c.labels /\ dtype0 = c.dtype /\ astype0 = c.astype

Init ==
    /\ \/ \E a \in StrCodecArgs : Constructed(a)
       \/ \E a \in IntCodecArgs : Constructed(a)
    /\ op = "idle"
    /\ given = <<>> /\ arg = <<>> /\ res = <<>>
    /\ outKind = "none" /\ outBefore = <<>> /\ out = <<>>
    /\ chained = FALSE /\ orig = <<>>
    /\ config = NoConfig

\* y = codec.encode(x)
DoEncode(x, ch, og) ==
    LET r == encode(labels, dtype, astype, x) IN
    /\ op' = "encode"
    /\ given' = x /\ arg' = r.arr /\ res' = r.enc
    /\ outKind' = "none" /\ outBefore' = <<>> /\ out' = <<>>
    /\ chained' = ch /\ orig' = og
    /\ config' = NoConfig
    /\ UNCHANGED <<labels, dtype, astype, labels0, dtype0, astype0>>

\* z = codec.decode(y, out)
DoDecode(y, o, kind, ch, og) ==
    LET r == decode(labels, dtype, astype, y, o, kind) IN
    /\ op' = "decode"
    /\ given' = y /\ arg' = y /\ res' = r.dec
    /\ outKind' = kind /\ outBefore' = o /\ out' = r.out
    /\ chained' = ch /\ orig' = og
    /\ config' = NoConfig
    /\ UNCHANGED <<labels, dtype, astype, labels0, dtype0, astype0>>

\* the model holds the arrays of one call at a time: a call on fresh arguments
\* starts once the caller has dropped the arrays of the call before
Idle == op = "idle"

\* encode of a fresh array of the decoded type
Encode ==
    /\ Idle
    /\ \E x \in SeqsUpTo(Values(labels, dtype), MaxLen) : DoEncode(x, FALSE, <<>>)

\* encode of the array the preceding decode, called without out, returned
EncodeDecoded ==
    /\ op = "decode" /\ outKind = "none"
    /\ DoEncode(res, TRUE, given)

\* decode of a fresh code array, no out argument
Decode ==
    /\ Idle
    /\ \E y \in SeqsUpTo(Codes(labels, astype), MaxLen) :
        DoDecode(y, <<>>, "none", FALSE, <<>>)

\* decode of the array the preceding encode returned
DecodeEncoded ==
    /\ op = "encode"
    /\ DoDecode(res, <<>>, "none", TRUE, given)

\* decode into a caller's ndarray of the decoded type, as long as the codes
DecodeOut ==
    /\ Idle
    /\ \E y \in SeqsUpTo(Codes(labels, astype), MaxLen), v \in Fills(labels, dtype) :
        DoDecode(y, [k \in 1..Len(y) |-> v], "ndarray", FALSE, <<>>)

\* decode into a caller's buffer that is no ndarray
DecodeBuf ==
    /\ Idle
    /\ \E y \in SeqsUpTo(Codes(labels, astype), MaxLen), v \in Fills(labels, dtype) :
        DoDecode(y, [k \in 1..Len(y) |-> v], "buffer", FALSE, <<>>)

GetConfig ==
    /\ Idle
    /\ op' = "get_config"
    /\ config' = get_config(labels, dtype, astype)
    /\ given' = <<>> /\ arg' = <<>> /\ res' = <<>>
    /\ outKind' = "none" /\ outBefore' = <<>> /\ out' = <<>>
    /\ chained' = FALSE /\ orig' = <<>>
    /\ UNCHANGED <<labels, dtype, astype, labels0, dtype0, astype0>>

\* the caller drops the arrays (or the record) of the last call
Release ==
    /\ ~Idle
    /\ op' = "idle"
    /\ given' = <<>> /\ arg' = <<>> /\ res' = <<>>
    /\ outKind' = "none" /\ outBefore' = <<>> /\ out' = <<>>
    /\ chained' = FALSE /\ orig' = <<>>
    /\ config' = NoConfig
    /\ UNCHANGED <<labels, dtype, astype, labels0, dtype0, astype0>>

Next ==
    \/ Encode
    \/ EncodeDecoded
    \/ Decode
    \/ DecodeEncoded
    \/ DecodeOut
    \/ DecodeBuf
    \/ GetConfig
    \/ Release

Spec == Init /\ [][Next]_vars

(***************************************************************************)
(* Notions the properties share.                                           *)
(***************************************************************************)
\* the number of labels
N == Len(labels)

\* the largest code the encoded type holds
MaxCode == Pow2(Bits(astype)) - 1

\* v is in the label list
InLabels(v) == \E i \in 1..N : labels[i] = v

\* the positions (1-based) of v in the label list
Positions(v) == { i \in 1..N : labels[i] = v }

Last(S) == CHOOSE i \in S : \A j \in S : j <= i

\* no value is at two positions of the label list
DistinctLabels == Cardinality({ labels[i] : i \in 1..N }) = N

\* label l is a value of the decoded type (a string no longer than its width)
Fits(l) == Store(dtype, l) = l

\* a decode without out of the array the preceding encode returned:
\* given = encode(orig), res = decode(given)
RoundTrip == op = "decode" /\ chained /\ outKind = "none"

\* an encode of the array the preceding decode (without out) returned:
\* given = decode(orig), res = encode(given)
ReEncode == op = "encode" /\ chained

(***************************************************************************)
(* C1.  Round trip.                                                        *)
(***************************************************************************)
\* C1, as stated: for any codec and any input array x whose elements are all
\* members of the label list, decode(encode(x)) without out equals x
\* element-wise and has the length of x.
C1_RoundTripAnyCodec ==
    (RoundTrip /\ \A k \in 1..Len(orig) : InLabels(orig[k]))
        => (Len(res) = Len(orig) /\ \A k \in 1..Len(orig) : res[k] = orig[k])

\* C1, amended: the same, for a codec whose encoded type holds a code for
\* every label (the label list has at most 2^w - 1 entries, w the bits of
\* the encoded type).
C1_RoundTrip ==
    (RoundTrip /\ N <= MaxCode /\ \A k \in 1..Len(orig) : InLabels(orig[k]))
        => (Len(res) = Len(orig) /\ \A k \in 1..Len(orig) : res[k] = orig[k])

\* a round trip of an array of two different labels, one of them not the
\* first of the list
C1_Witness ==
    /\ RoundTrip /\ N <= MaxCode
    /\ Len(orig) = 2 /\ orig[1] # orig[2]
    /\ \A k \in 1..2 : InLabels(orig[k])
    /\ given[2] >= 2
    /\ res = orig

(***************************************************************************)
(* C2.  Decoding into a caller's array.                                    *)
(***************************************************************************)
\* C2: for any code array y and any caller-supplied array of the decoded type
\* with the length of y, whatever it held before, decode(y, out) returns the
\* values decode(y) returns, and the supplied array holds them afterwards.
C2_OutBufferEquivalence ==
    (op = "decode" /\ outKind = "ndarray")
        => /\ res = decode(labels, dtype, astype, given, <<>>, "none").dec
           /\ out = decode(labels, dtype, astype, given, <<>>, "none").dec

(***************************************************************************)
(* C3.  Code 0 and the bijection between codes and labels.                 *)
(***************************************************************************)
\* C3, as stated: for a codec with N distinct labels and every code array y
\* with entries in 0..N, encode(decode(y)) = y element-wise.
C3_ReEncodeAnyLabels ==
    (ReEncode /\ DistinctLabels /\ \A k \in 1..Len(orig) : orig[k] \in 0..N)
        => (Len(res) = Len(orig) /\ \A k \in 1..Len(orig) : res[k] = orig[k])

\* C3, amended: the same, when no label is the zero value of the decoded type
\* and every label is a value of the decoded type (no longer than its width).
C3_ReEncode ==
    ( /\ ReEncode /\ DistinctLabels
      /\ \A i \in 1..N : labels[i] # ZeroOf(dtype) /\ Fits(labels[i])
      /\ \A k \in 1..Len(orig) : orig[k] \in 0..N )
        => (Len(res) = Len(orig) /\ \A k \in 1..Len(orig) : res[k] = orig[k])

\* code 0 and the code of the second of two labels, decoded and encoded again
C3_Witness ==
    /\ ReEncode /\ DistinctLabels /\ N >= 2
    /\ \A i \in 1..N : labels[i] # ZeroOf(dtype) /\ Fits(labels[i])
    /\ orig = <<0, 2>>
    /\ given = <<ZeroOf(dtype), labels[2]>>
    /\ res = orig

(***************************************************************************)
(* C4.  The sentinel of encode.                                            *)
(***************************************************************************)
\* C4: encode returns one code per input element, and every position whose
\* input value equals none of the labels holds code 0.
C4_EncodeSentinel ==
    op = "encode"
        => /\ Len(res) = Len(given)
           /\ \A k \in 1..Len(given) : ~InLabels(given[k]) => res[k] = 0

\* an encode of a label followed by a value that is no label
C4_Witness ==
    /\ op = "encode" /\ Len(given) = 2
    /\ InLabels(given[1]) /\ res[1] # 0
    /\ ~InLabels(given[2]) /\ res[2] = 0


(***************************************************************************)
(* C5.  The order of the label list.                                       *)
(***************************************************************************)
Swap(l, i, j) ==
    [k \in 1..Len(l) |-> IF k = i THEN l[j] ELSE IF k = j THEN l[i] ELSE l[k]]

Rotate(l) == [k \in 1..Len(l) |-> l[(k % Len(l)) + 1]]

\* the label list reordered: every permutation of a short list; of a long
\* list, its first and last labels exchanged, its first two exchanged, and
\* the list rotated by one
Reorderings(l) ==
    IF Len(l) <= MaxLabels
    THEN { [k \in 1..Len(l) |-> l[p[k]]] :
             p \in { q \in [1..Len(l) -> 1..Len(l)] :
                       \A i, j \in 1..Len(l) : q[i] = q[j] => i = j } }
    ELSE { Swap(l, 1, Len(l)), Swap(l, 1, 2), Rotate(l) }

\* the positions of x that encode to the sentinel under label list l
SentinelAt(l, x) ==
    { k \in 1..Len(x) : encode(l, dtype, astype, x).enc[k] = 0 }

\* the example of the class docstring, with a for female, b for male and ab
\* for unexpected
ExampleEncode ==
    encode(<<Bytes(<<"a">>), Bytes(<<"b">>)>>, NpDtype(<<"|", "S", 2>>),
           NpDtype(DefaultAstype),
           <<Bytes(<<"b">>), Bytes(<<"a">>), Bytes(<<"a">>), Bytes(<<"b">>),
             Bytes(<<"a", "b">>)>>).enc = <<2, 1, 1, 2, 0>>

\* C5, as stated: for a list of distinct labels, encode assigns code i+1 to
\* every input position equal to labels[i] (positions are 1-based here, so
\* the code of labels[i] is i), and for any permutation of the label list the
\* input values that encode to 0 are the same.
C5_OrderAnyCodec ==
    /\ ExampleEncode
    /\ (op = "encode" /\ DistinctLabels)
         => /\ \A k \in 1..Len(given) : \A i \in 1..N :
                  given[k] = labels[i] => res[k] = i
            /\ \A p \in Reorderings(labels) :
                  SentinelAt(p, given) = { k \in 1..Len(given) : res[k] = 0 }

\* C5, amended: the same, for a codec whose encoded type holds a code for
\* every label (at most 2^w - 1 labels).
C5_Order ==
    /\ ExampleEncode
    /\ (op = "encode" /\ DistinctLabels /\ N <= MaxCode)
         => /\ \A k \in 1..Len(given) : \A i \in 1..N :
                  given[k] = labels[i] => res[k] = i
            /\ \A p \in Reorderings(labels) :
                  SentinelAt(p, given) = { k \in 1..Len(given) : res[k] = 0 }

\* an encode, under two distinct labels, of the second label and of a value
\* that is no label
C5_Witness ==
    /\ op = "encode" /\ DistinctLabels /\ N = 2 /\ N <= MaxCode
    /\ Len(given) = 2
    /\ given[1] = labels[2] /\ res[1] = 2
    /\ ~InLabels(given[2]) /\ res[2] = 0
    /\ encode(Swap(labels, 1, 2), dtype, astype, given).enc = <<1, 0>>

(***************************************************************************)
(* C6.  The configuration round trip.                                      *)
(***************************************************************************)
\* C6: the codec constructed from the labels, dtype and astype of
\* get_config() has the labels, decoded type and encoded type of the codec
\* asked, encodes and decodes as it does, and the record's id is 'categorize'.
C6_ConfigRoundTrip ==
    op = "get_config"
        => LET c2 == CategorizeInit(config.labels, config.dtype, config.astype) IN
           /\ config.id = "categorize"
           /\ c2.labels = labels /\ c2.dtype = dtype /\ c2.astype = astype
           /\ \A x \in SeqsUpTo(Values(labels, dtype), 1) :
                 encode(c2.labels, c2.dtype, c2.astype, x).enc
                     = encode(labels, dtype, astype, x).enc
           /\ \A y \in SeqsUpTo(Codes(labels, astype), 1) :
                 decode(c2.labels, c2.dtype, c2.astype, y, <<>>, "none").dec
                     = decode(labels, dtype, astype, y, <<>>, "none").dec

\* the configuration of a byte-string codec with two labels, reported as text
C6_Witness ==
    /\ op = "get_config" /\ dtype.kind = "S" /\ N = 2
    /\ labels[1].k = "b" /\ config.labels[1].k = "t"
    /\ config.labels[2].s = labels[2].s /\ labels[2].s # <<>>
    /\ config.dtype = <<"|", "S", dtype.size>>

(***************************************************************************)
(* C7.  Duplicate labels.                                                  *)
(***************************************************************************)
\* v is a label at several positions of the list
Duplicated(v) == Cardinality(Positions(v)) >= 2

\* C7, as stated: encode gives every input element equal to a value at
\* several positions of the list the code of its last position, and decode
\* maps the code of each of those positions to that value.
C7_DuplicatesAnyCodec ==
    /\ op = "encode"
         => \A k \in 1..Len(given) :
               Duplicated(given[k]) => res[k] = Last(Positions(given[k]))
    /\ (op = "decode" /\ outKind = "none")
         => \A k \in 1..Len(given) :
               (given[k] \in 1..N /\ Duplicated(labels[given[k]]))
                   => res[k] = labels[given[k]]

\* C7, amended: encode gives every input element equal to such a value the
\* code of its last position when the encoded type holds that code (the
\* position is at most 2^w - 1), and decode maps the code of each of those
\* positions to that value when it is a value of the decoded type (no longer
\* than its width).
C7_Duplicates ==
    /\ op = "encode"
         => \A k \in 1..Len(given) :
               (Duplicated(given[k]) /\ Last(Positions(given[k])) <= MaxCode)
                   => res[k] = Last(Positions(given[k]))
    /\ (op = "decode" /\ outKind = "none")
         => \A k \in 1..Len(given) :
               ( /\ given[k] \in 1..N /\ Duplicated(labels[given[k]])
                 /\ Fits(labels[given[k]]) )
                   => res[k] = labels[given[k]]

\* labels [A, A]: codes 1 and 2 decoded to A, and that array encoded to 2, 2
C7_Witness ==
    /\ ReEncode /\ N = 2 /\ labels[1] = labels[2]
    /\ Fits(labels[1]) /\ labels[1] # ZeroOf(dtype)
    /\ orig = <<1, 2>>
    /\ given = <<labels[1], labels[1]>>
    /\ res = <<2, 2>>

(***************************************************************************)
(* C8.  Statelessness.                                                     *)
(***************************************************************************)
\* C8: after any sequence of encode, decode and get_config calls the codec
\* has the labels, decoded type and encoded type construction gave it; an
\* encode leaves its input array as the caller passed it; and what encode(x)
\* or decode(y) returns is what the constructed configuration gives for that
\* argument, whatever calls came before.
C8_Stateless ==
    /\ labels = labels0 /\ dtype = dtype0 /\ astype = astype0
    /\ op = "encode"
         => /\ arg = given
            /\ res = encode(labels0, dtype0, astype0, given).enc
    /\ (op = "decode" /\ outKind = "none")
         => res = decode(labels0, dtype0, astype0, given, <<>>, "none").dec
    /\ op = "get_config" => config = get_config(labels0, dtype0, astype0)

\* an encode of a two-element array that follows an earlier call: its
\* argument is what a decode returned
C8_Witness ==
    /\ ReEncode /\ N >= 1
    /\ Len(given) = 2 /\ arg = given
    /\ Len(res) = 2 /\ res[1] # 0

(***************************************************************************)
(* C9.  What decode leaves at codes without a label.                       *)
(***************************************************************************)
\* C9, as stated: decode without out yields, at every position whose code is
\* 0 or greater than N, the zero value of the decoded type, and at every
\* position whose code c is in 1..N the label labels[c-1] (labels[c], with
\* positions 1-based).
C9_DecodeDefaultAnyLabels ==
    (op = "decode" /\ outKind = "none")
        => /\ Len(res) = Len(given)
           /\ \A k \in 1..Len(given) :
                 /\ (given[k] = 0 \/ given[k] > N) => res[k] = ZeroOf(dtype)
                 /\ given[k] \in 1..N => res[k] = labels[given[k]]

\* C9, amended: the same, where a position whose code c is in 1..N holds
\* labels[c-1] as an element of the decoded type stores it: the label itself
\* when it is no longer than the type's width, and cut to that width otherwise.
C9_DecodeDefault ==
    (op = "decode" /\ outKind = "none")
        => /\ Len(res) = Len(given)
           /\ \A k \in 1..Len(given) :
                 /\ (given[k] = 0 \/ given[k] > N) => res[k] = ZeroOf(dtype)
                 /\ given[k] \in 1..N => res[k] = Store(dtype, labels[given[k]])

\* a decode of a code past the labels followed by the code of a label that
\* is a value of the decoded type and not its zero value
C9_Witness ==
    /\ op = "decode" /\ outKind = "none" /\ N >= 1
    /\ Len(given) = 2
    /\ given[1] = N + 1 /\ res[1] = ZeroOf(dtype)
    /\ given[2] = N /\ res[2] = labels[N] /\ labels[N] # ZeroOf(dtype)

(***************************************************************************)
(* C10.  Wraparound of the codes.                                          *)
(***************************************************************************)
\* the number of codes of the encoded type, 2^w
Modulus == Pow2(Bits(astype))

====
